---- MODULE Spec2Model ----
(***************************************************************************)
(* Model of the DCA trading service of src/main.py: the process-wide       *)
(* configuration and portfolio, the three TradingEngine functions and the  *)
(* HTTP handlers.  The handlers are plain `def` functions, which FastAPI   *)
(* runs on a pool of worker threads, so execute_trade is modelled one      *)
(* source statement per step and per worker thread.                        *)
(*                                                                         *)
(* Python floats are modelled as exact rationals [n, d] in lowest terms    *)
(* (d > 0); NaN and infinities are not modelled.  read_root and serve_ui   *)
(* touch no state and are left out.                                        *)
(***************************************************************************)
EXTENDS Integers, Sequences, FiniteSets, TLC

\* Most execute_trade calls a behaviour may start.
MaxCycles == 2

\* Worker threads of the pool that serve requests.
Threads == {"t1", "t2"}

---------------------------------------------------------------------------
\* Float arithmetic, as exact rationals.

Abs(x) == IF x < 0 THEN -x ELSE x

RECURSIVE GCD(_, _)
GCD(a, b) == IF b = 0 THEN a ELSE GCD(b, a % b)

Rat(n, d) ==
    LET g == GCD(Abs(n), Abs(d))
        s == IF d < 0 THEN -1 ELSE 1
    IN  [n |-> s * (n \div g), d |-> s * (d \div g)]

Float(i) == [n |-> i, d |-> 1]

FAdd(a, b) == Rat(a.n * b.d + b.n * a.d, a.d * b.d)
FSub(a, b) == Rat(a.n * b.d - b.n * a.d, a.d * b.d)
FMul(a, b) == Rat(a.n * b.n, a.d * b.d)
\* Only used with b # 0; Python raises ZeroDivisionError otherwise.
FDiv(a, b) == Rat(a.n * b.d, a.d * b.n)
FAbs(a)    == [n |-> Abs(a.n), d |-> a.d]
FLe(a, b)  == a.n * b.d <= b.n * a.d
FGt(a, b)  == a.n * b.d > b.n * a.d

\* The remainder as C computes it: it takes the sign of the dividend.
TruncMod(a, b) == IF a >= 0 THEN a % b ELSE -((-a) % b)

\* Python's % takes the sign of the divisor: the result is in 0 .. b-1.
PyMod(a, b) == a % b

---------------------------------------------------------------------------
\* Data models

DefaultConfig ==
    [symbol |-> "BTC/USD", dca_amount |-> Float(100), dca_interval |-> 24,
     hedge_ratio |-> Rat(3, 10), risk_limit |-> Rat(1, 10),
     take_profit |-> Rat(3, 20)]

\* TradingConfig declares bare str/float/int fields: every well-typed body
\* validates, whatever the range of its numbers.
TradingConfig(c) ==
    /\ c.symbol \in STRING
    /\ c.dca_amount.d > 0 /\ c.hedge_ratio.d > 0
    /\ c.risk_limit.d > 0 /\ c.take_profit.d > 0
    /\ c.dca_interval \in Int

InitialPortfolio ==
    [total_value |-> Float(10000), positions |-> <<>>, pnl |-> Float(0),
     trades |-> <<>>]

ZeroDivisionError == [type |-> "ZeroDivisionError"]

---------------------------------------------------------------------------
\* Trading Algorithm Engine.  The "timestamp" entry of an intent is not
\* modelled: nothing in the program reads it.

calculate_dca_position(config, current_price) ==
    IF current_price.n = 0
    THEN ZeroDivisionError
    ELSE [type |-> "DCA_BUY", symbol |-> config.symbol,
          size |-> FDiv(config.dca_amount, current_price),
          price |-> current_price]

calculate_hedge(config, position_value) ==
    [type |-> "HEDGE", symbol |-> config.symbol \o "_HEDGE",
     size |-> FMul(position_value, config.hedge_ratio)]

\* assess_risk without abs(): a loss counts as negative risk.
assess_risk_signed(portfolio, config) ==
    LET risk_percentage ==
            IF FGt(portfolio.total_value, Float(0))
            THEN FDiv(portfolio.pnl, portfolio.total_value)
            ELSE Float(0)
    IN  [current_risk |-> risk_percentage,
         risk_limit |-> config.risk_limit,
         within_limits |-> FLe(risk_percentage, config.risk_limit),
         recommendation |-> IF FGt(risk_percentage, config.risk_limit)
                            THEN "REDUCE_POSITION" ELSE "CONTINUE"]

assess_risk(portfolio, config) ==
    LET risk_percentage ==
            IF FGt(portfolio.total_value, Float(0))
            THEN FDiv(FAbs(portfolio.pnl), portfolio.total_value)
            ELSE Float(0)
    IN  [current_risk |-> risk_percentage,
         risk_limit |-> config.risk_limit,
         within_limits |-> FLe(risk_percentage, config.risk_limit),
         recommendation |-> IF FGt(risk_percentage, config.risk_limit)
                            THEN "REDUCE_POSITION" ELSE "CONTINUE"]

---------------------------------------------------------------------------
\* Request inputs

\* A configuration at the edge riskLimit = 0.01, with no hedge.
BoundaryConfig ==
    [DefaultConfig EXCEPT !.dca_amount = Float(200), !.hedge_ratio = Float(0),
                          !.risk_limit = Rat(1, 100)]

\* A well-typed body whose numbers are out of the documented ranges.
OutOfRangeConfig ==
    [DefaultConfig EXCEPT !.dca_amount = Float(-100), !.hedge_ratio = Rat(3, 2),
                          !.risk_limit = Rat(-1, 10)]

ConfigInputs == {DefaultConfig, BoundaryConfig, OutOfRangeConfig}

\* Request bodies of POST /execute.
ExecutionInputs ==
    {[config |-> DefaultConfig, simulate |-> TRUE],
     [config |-> OutOfRangeConfig, simulate |-> FALSE]}

\* Values of hash(str(datetime.now())): the string hash is salted per
\* process and may be negative.  These give the offsets 4999 and -5000.
HashInputs == {-1, 10000}

---------------------------------------------------------------------------
\* State

VARIABLES
    current_config,   \* the global current_config
    portfolio_data,   \* the global portfolio_data
    pc,               \* per thread: the statement of execute_trade it is at
    frame,            \* per thread: the locals of its execute_trade call
    reply,            \* the HTTP reply the last step sent, if it sent one
    calls             \* execute_trade calls started so far

vars == <<current_config, portfolio_data, pc, frame, reply, calls>>

NoValue == [type |-> "None"]

NoFrame ==
    [execution |-> NoValue, current_price |-> NoValue, dca_trade |-> NoValue,
     hedge_trade |-> NoValue, risk_assessment |-> NoValue]

NoReply == [op |-> "none"]

Init ==
    /\ current_config = DefaultConfig
    /\ portfolio_data = InitialPortfolio
    /\ pc = [t \in Threads |-> "idle"]
    /\ frame = [t \in Threads |-> NoFrame]
    /\ reply = NoReply
    /\ calls = 0

---------------------------------------------------------------------------
\* The statements of execute_trade

\* current_price = 50000.0 + (hash(str(datetime.now())) % 10000 - 5000)
MockPrice(h) == FAdd(Float(50000), Float(PyMod(h, 10000) - 5000))

\* A dry run that skips the append when the call is simulated.
AppendPosition_UnlessSimulated(portfolio, fr) ==
    IF fr.execution.simulate
    THEN portfolio
    ELSE [portfolio EXCEPT !.positions = Append(@, fr.dca_trade)]

AppendPosition(portfolio, fr) ==
    [portfolio EXCEPT !.positions = Append(@, fr.dca_trade)]

\* trades.append(dca_trade): the hedge intent is never recorded.
ExtendTrades_DcaOnly(portfolio, fr) ==
    [portfolio EXCEPT !.trades = Append(@, fr.dca_trade)]

ExtendTrades(portfolio, fr) ==
    [portfolio EXCEPT !.trades = @ \o <<fr.dca_trade, fr.hedge_trade>>]

price_change(current_price) ==
    FDiv(FSub(current_price, Float(50000)), Float(50000))

\* pnl += ... instead of pnl = ...
WritePnl_Accumulate(portfolio, fr) ==
    [portfolio EXCEPT
        !.pnl = FAdd(@, FMul(FMul(portfolio.total_value,
                                  price_change(fr.current_price)),
                             Rat(1, 10)))]

WritePnl(portfolio, fr) ==
    [portfolio EXCEPT
        !.pnl = FMul(FMul(portfolio.total_value, price_change(fr.current_price)),
                     Rat(1, 10))]

\* The returned dict.  Its "portfolio" entry is the global object itself,
\* serialised after the handler has returned, so it is not a value of the
\* call and is left out.
ExecutionResult(fr) ==
    [op |-> "execute_trade", status |-> 200,
     execution_result |-> IF fr.execution.simulate THEN "SUCCESS" ELSE "EXECUTED",
     trades |-> <<fr.dca_trade, fr.hedge_trade>>,
     risk_assessment |-> fr.risk_assessment,
     current_price |-> fr.current_price]

\* Request validation, entry and the mocked price (lines 104-109).
execute_trade(t, execution, h) ==
    /\ pc[t] = "idle"
    /\ calls < MaxCycles
    /\ TradingConfig(execution.config)
    /\ frame' = [frame EXCEPT ![t] =
                    [NoFrame EXCEPT !.execution = execution,
                                    !.current_price = MockPrice(h)]]
    /\ pc' = [pc EXCEPT ![t] = "engine"]
    /\ calls' = calls + 1
    /\ reply' = NoReply
    /\ UNCHANGED <<current_config, portfolio_data>>

\* Lines 112-115: the two intents, computed from the call's locals only.  An
\* exception leaves the handler and becomes a 500 reply.
execute_engine(t) ==
    /\ pc[t] = "engine"
    /\ LET config == frame[t].execution.config
           dca_trade == calculate_dca_position(config, frame[t].current_price)
           hedge_trade == calculate_hedge(config, config.dca_amount)
       IN  IF dca_trade.type = "ZeroDivisionError"
           THEN /\ reply' = [op |-> "execute_trade", status |-> 500,
                              detail |-> dca_trade.type]
                /\ frame' = [frame EXCEPT ![t] = NoFrame]
                /\ pc' = [pc EXCEPT ![t] = "idle"]
           ELSE /\ frame' = [frame EXCEPT ![t].dca_trade = dca_trade,
                                          ![t].hedge_trade = hedge_trade]
                /\ pc' = [pc EXCEPT ![t] = "append"]
                /\ reply' = NoReply
    /\ UNCHANGED <<current_config, portfolio_data, calls>>

\* Line 118
execute_append(t) ==
    /\ pc[t] = "append"
    /\ portfolio_data' = AppendPosition(portfolio_data, frame[t])
    /\ pc' = [pc EXCEPT ![t] = "extend"]
    /\ reply' = NoReply
    /\ UNCHANGED <<current_config, frame, calls>>

\* Line 119
execute_extend(t) ==
    /\ pc[t] = "extend"
    /\ portfolio_data' = ExtendTrades(portfolio_data, frame[t])
    /\ pc' = [pc EXCEPT ![t] = "pnl"]
    /\ reply' = NoReply
    /\ UNCHANGED <<current_config, frame, calls>>

\* Lines 122-123
execute_pnl(t) ==
    /\ pc[t] = "pnl"
    /\ portfolio_data' = WritePnl(portfolio_data, frame[t])
    /\ pc' = [pc EXCEPT ![t] = "risk"]
    /\ reply' = NoReply
    /\ UNCHANGED <<current_config, frame, calls>>

\* Lines 126-134: the risk assessment reads the shared portfolio; building
\* and returning the dict touches the call's locals only.
execute_return(t) ==
    /\ pc[t] = "risk"
    /\ LET risk_assessment ==
               assess_risk(portfolio_data, frame[t].execution.config)
       IN  reply' = ExecutionResult([frame[t] EXCEPT
                                        !.risk_assessment = risk_assessment])
    /\ frame' = [frame EXCEPT ![t] = NoFrame]
    /\ pc' = [pc EXCEPT ![t] = "idle"]
    /\ UNCHANGED <<current_config, portfolio_data, calls>>

---------------------------------------------------------------------------
\* The other endpoints; each runs to completion in one step.

get_config ==
    /\ reply' = [op |-> "get_config", body |-> current_config]
    /\ UNCHANGED <<current_config, portfolio_data, pc, frame, calls>>

\* An update that also starts the portfolio afresh.
update_config_reset(config) ==
    /\ TradingConfig(config)
    /\ current_config' = config
    /\ portfolio_data' = InitialPortfolio
    /\ reply' = [op |-> "update_config", body |-> config]
    /\ UNCHANGED <<pc, frame, calls>>

update_config(config) ==
    /\ TradingConfig(config)
    /\ current_config' = config
    /\ reply' = [op |-> "update_config", body |-> config]
    /\ UNCHANGED <<portfolio_data, pc, frame, calls>>

get_portfolio ==
    /\ reply' = [op |-> "get_portfolio", body |-> portfolio_data]
    /\ UNCHANGED <<current_config, portfolio_data, pc, frame, calls>>

get_risk_analysis ==
    /\ reply' = [op |-> "get_risk_analysis",
                 body |-> assess_risk(portfolio_data, current_config)]
    /\ UNCHANGED <<current_config, portfolio_data, pc, frame, calls>>

---------------------------------------------------------------------------
Next ==
    \/ \E t \in Threads, e \in ExecutionInputs, h \in HashInputs :
           execute_trade(t, e, h)
    \/ \E t \in Threads : execute_engine(t)
    \/ \E t \in Threads : execute_append(t)
    \/ \E t \in Threads : execute_extend(t)
    \/ \E t \in Threads : execute_pnl(t)
    \/ \E t \in Threads : execute_return(t)
    \/ get_config
    \/ \E c \in ConfigInputs : update_config(c)
    \/ get_portfolio
    \/ get_risk_analysis

Spec == Init /\ [][Next]_vars

---------------------------------------------------------------------------
\* TradingEngine.assess_risk as a function: get_risk_analysis applied to
\* portfolios and configurations drawn from bounded sets.

TotalValueInputs == {Float(0), Float(10000), Float(20000), Float(-5000)}

PnlInputs == {Float(0), Float(100), Float(-100), Float(1000), Float(-1500)}

HistoryInputs ==
    LET fr == [NoFrame EXCEPT
                  !.execution = [config |-> DefaultConfig, simulate |-> FALSE],
                  !.dca_trade = calculate_dca_position(DefaultConfig, Float(50000)),
                  !.hedge_trade = calculate_hedge(DefaultConfig, Float(100))]
    IN  {InitialPortfolio,
         ExtendTrades(AppendPosition(InitialPortfolio, fr), fr)}

PortfolioInputs ==
    {[h EXCEPT !.total_value = tv, !.pnl = p] :
        h \in HistoryInputs, tv \in TotalValueInputs, p \in PnlInputs}

InitRisk ==
    /\ current_config \in ConfigInputs
    /\ portfolio_data \in PortfolioInputs
    /\ pc = [t \in Threads |-> "idle"]
    /\ frame = [t \in Threads |-> NoFrame]
    /\ reply = NoReply
    /\ calls = 0

NextRisk == get_risk_analysis

RiskSpec == InitRisk /\ [][NextRisk]_vars

---------------------------------------------------------------------------
\* The body of execute_trade below line 109 as a function of the price: one
\* call that has just obtained current_price, drawn from a bounded set that
\* includes prices the mock never produces.

PriceInputs == {Float(-1), Float(0), Float(1), Float(50000), Float(55000)}

InitCycle ==
    /\ current_config = DefaultConfig
    /\ portfolio_data = InitialPortfolio
    /\ \E t \in Threads, c \in {DefaultConfig, BoundaryConfig}, b \in BOOLEAN,
          p \in PriceInputs :
          /\ pc = [u \in Threads |-> IF u = t THEN "engine" ELSE "idle"]
          /\ frame = [u \in Threads |->
                        IF u = t
                        THEN [NoFrame EXCEPT
                                 !.execution = [config |-> c, simulate |-> b],
                                 !.current_price = p]
                        ELSE NoFrame]
    /\ reply = NoReply
    /\ calls = 1

NextCycle ==
    \/ \E t \in Threads : execute_engine(t)
    \/ \E t \in Threads : execute_append(t)
    \/ \E t \in Threads : execute_extend(t)
    \/ \E t \in Threads : execute_pnl(t)
    \/ \E t \in Threads : execute_return(t)

CycleSpec == InitCycle /\ [][NextCycle]_vars

---------------------------------------------------------------------------
\* Properties

IsPrefix(a, b) == Len(a) <= Len(b) /\ SubSeq(b, 1, Len(a)) = a

InFlight(labels) == Cardinality({t \in Threads : pc[t] \in labels})

AllIdle == \A t \in Threads : pc[t] = "idle"

\* total_value * ((current_price - 50000) / 50000) * 0.1 as one fraction.
ExpectedPnl(total_value, current_price) ==
    Rat(total_value.n * (current_price.n - 50000 * current_price.d),
        500000 * total_value.d * current_price.d)

InUnitRange(x) == FLe(Float(0), x) /\ FLe(x, Float(1))

ValidRange(c) ==
    /\ InUnitRange(c.hedge_ratio)
    /\ InUnitRange(c.risk_limit)
    /\ InUnitRange(c.take_profit)
    /\ FGt(c.dca_amount, Float(0))

Returned == reply.op = "execute_trade" /\ reply.status = 200

C1_Counts ==
    /\ Len(portfolio_data.positions) = calls - InFlight({"engine", "append"})
    /\ Len(portfolio_data.trades) =
           2 * (calls - InFlight({"engine", "append", "extend"}))
    /\ \A i \in 1..Len(portfolio_data.positions) :
           portfolio_data.positions[i].type = "DCA_BUY"
    /\ \A i \in 1..Len(portfolio_data.trades) :
           portfolio_data.trades[i].type =
               IF i % 2 = 1 THEN "DCA_BUY" ELSE "HEDGE"

C1_Step ==
    /\ IsPrefix(portfolio_data.positions, portfolio_data'.positions)
    /\ IsPrefix(portfolio_data.trades, portfolio_data'.trades)
    /\ \A t \in Threads :
          /\ pc[t] = "append" /\ pc'[t] = "extend" =>
                /\ portfolio_data'.positions =
                       Append(portfolio_data.positions, frame[t].dca_trade)
                /\ portfolio_data'.trades = portfolio_data.trades
                /\ frame[t].dca_trade.type = "DCA_BUY"
          /\ pc[t] = "extend" /\ pc'[t] = "pnl" =>
                /\ portfolio_data'.trades =
                       portfolio_data.trades \o
                           <<frame[t].dca_trade, frame[t].hedge_trade>>
                /\ portfolio_data'.positions = portfolio_data.positions
                /\ frame[t].hedge_trade.type = "HEDGE"
    /\ (\A t \in Threads : ~(pc[t] = "append" /\ pc'[t] = "extend")) =>
           portfolio_data'.positions = portfolio_data.positions
    /\ (\A t \in Threads : ~(pc[t] = "extend" /\ pc'[t] = "pnl")) =>
           portfolio_data'.trades = portfolio_data.trades

\* C1: every execute call appends exactly one record (its DCA_BUY intent) to
\* positions and exactly two (its DCA_BUY intent, then its HEDGE intent) to
\* trades, and no step changes or reorders a record already there: the old
\* value of each sequence is a prefix of the new one, and once n calls have
\* run positions has n entries and trades 2n.
C1_AppendOnly == [](C1_Counts) /\ [][C1_Step]_vars

C1_Witness ==
    /\ AllIdle
    /\ calls = 2
    /\ Len(portfolio_data.positions) = 2
    /\ Len(portfolio_data.trades) = 4
    /\ portfolio_data.trades[3] = portfolio_data.positions[1]
    /\ portfolio_data.trades[1] = portfolio_data.positions[2]
    /\ portfolio_data.positions[1] # portfolio_data.positions[2]

C2_Inv ==
    /\ \/ portfolio_data.pnl = InitialPortfolio.pnl
       \/ \E i \in 1..Len(portfolio_data.positions) :
              portfolio_data.pnl =
                  ExpectedPnl(portfolio_data.total_value,
                              portfolio_data.positions[i].price)
    /\ WritePnl([InitialPortfolio EXCEPT !.pnl = Float(-7)],
                [NoFrame EXCEPT !.current_price = Float(55000)]).pnl = Float(100)

C2_Step ==
    /\ \A t \in Threads :
          pc[t] = "pnl" /\ pc'[t] = "risk" =>
              portfolio_data'.pnl =
                  ExpectedPnl(portfolio_data.total_value, frame[t].current_price)
    /\ portfolio_data'.pnl # portfolio_data.pnl =>
           \E t \in Threads : pc[t] = "pnl" /\ pc'[t] = "risk"

\* C2: the pnl an execute call writes is
\* totalValue * ((currentPrice - 50000) / 50000) * 0.1 for that call's price,
\* whatever pnl was before, and it stays that value until an execute call
\* writes pnl again; pnl is never an accumulation (it is the seed 0 or the
\* value for the price of one recorded position), and a price of 55000 with
\* totalValue 10000 gives 100.
C2_NonCumulativePnl == [](C2_Inv) /\ [][C2_Step]_vars

C2_Witness ==
    /\ AllIdle
    /\ Len(portfolio_data.positions) = 2
    /\ portfolio_data.positions[1].price = Float(54999)
    /\ portfolio_data.positions[2].price = Float(54999)
    /\ portfolio_data.pnl = Rat(4999, 50)
    /\ Returned /\ reply.current_price = Float(54999)

C4_Claim ==
    /\ ValidRange(current_config)
    /\ \A t \in Threads : pc[t] # "idle" => ValidRange(frame[t].execution.config)
    /\ reply.op = "update_config" => ValidRange(reply.body)

\* C5 (as claimed): cycles do not interleave; whenever no execute is in
\* progress pnl is the value for the price of the last record in positions,
\* and the verdict a call returns is computed from the pnl that call wrote.
C5_Claim ==
    /\ AllIdle /\ Len(portfolio_data.positions) > 0 =>
           portfolio_data.pnl =
               ExpectedPnl(portfolio_data.total_value,
                           portfolio_data.positions[Len(portfolio_data.positions)].price)
    /\ Returned =>
           reply.risk_assessment.current_risk =
               FDiv(FAbs(ExpectedPnl(portfolio_data.total_value,
                                     reply.current_price)),
                    portfolio_data.total_value)

\* C6: assess_risk returns currentRisk = |pnl| / totalValue when
\* totalValue > 0 and 0 otherwise, withinLimits = (currentRisk <= riskLimit),
\* REDUCE_POSITION when currentRisk > riskLimit and CONTINUE otherwise; the
\* verdict is a function of (pnl, totalValue, riskLimit) alone, withinLimits
\* holds exactly when the recommendation is CONTINUE, and totalValue 10000,
\* pnl -1500, riskLimit 0.1 gives 0.15, false, REDUCE_POSITION.
C6_RiskVerdict ==
    reply.op = "get_risk_analysis" =>
        LET v == reply.body
            tv == portfolio_data.total_value
            pnl == portfolio_data.pnl
            limit == current_config.risk_limit
        IN  /\ IF tv.n > 0
               THEN v.current_risk.n * tv.n * pnl.d =
                        Abs(pnl.n) * tv.d * v.current_risk.d
               ELSE v.current_risk = Float(0)
            /\ v.risk_limit = limit
            /\ v.within_limits <=>
                   v.current_risk.n * limit.d <= limit.n * v.current_risk.d
            /\ v.recommendation =
                   IF v.current_risk.n * limit.d > limit.n * v.current_risk.d
                   THEN "REDUCE_POSITION" ELSE "CONTINUE"
            /\ v.within_limits <=> v.recommendation = "CONTINUE"
            /\ v = assess_risk([total_value |-> tv, pnl |-> pnl],
                               [risk_limit |-> limit])
            /\ tv = Float(10000) /\ pnl = Float(-1500) /\ limit = Rat(1, 10) =>
                   /\ v.current_risk = Rat(3, 20)
                   /\ ~v.within_limits
                   /\ v.recommendation = "REDUCE_POSITION"

C6_Witness ==
    /\ reply.op = "get_risk_analysis"
    /\ portfolio_data.total_value = Float(10000)
    /\ portfolio_data.pnl = Float(-1500)
    /\ Len(portfolio_data.trades) = 2
    /\ current_config.risk_limit = Rat(1, 10)
    /\ reply.body.recommendation = "REDUCE_POSITION"

\* C7 (as claimed): with totalValue = 0, assess_risk returns currentRisk = 0
\* and withinLimits = true whatever pnl is, for every accepted configuration.
C7_Claim ==
    reply.op = "get_risk_analysis" /\ portfolio_data.total_value = Float(0) =>
        reply.body.current_risk = Float(0) /\ reply.body.within_limits

C8_Step ==
    /\ reply'.op \in {"get_config", "update_config", "get_portfolio",
                      "get_risk_analysis"} =>
           portfolio_data' = portfolio_data
    /\ portfolio_data' # portfolio_data =>
           \E t \in Threads :
               /\ pc[t] \in {"append", "extend", "pnl"}
               /\ pc'[t] # pc[t]

\* C8: get_portfolio, get_risk_analysis, get_config and update_config leave
\* total_value, positions, pnl and trades as they are (only a step of
\* execute_trade changes the portfolio), and get_portfolio returns exactly
\* the portfolio of the state it runs in; hence two get_portfolio calls with
\* no execute step between them return identical values.
C8_ReadsDoNotMutate ==
    [](reply.op = "get_portfolio" => reply.body = portfolio_data)
        /\ [][C8_Step]_vars

C8_Witness ==
    /\ reply.op = "get_portfolio"
    /\ Len(reply.body.positions) = 1
    /\ current_config = OutOfRangeConfig
    /\ AllIdle

\* C9: every mocked price lies in [45000, 54999] and total_value stays
\* 10000, so |pnl| <= 1% of total_value, and every verdict returned by
\* execute_trade or get_risk_analysis under a riskLimit >= 0.01 has
\* currentRisk <= 0.01, withinLimits = true and recommendation CONTINUE.
C9_MockedRiskBound ==
    /\ portfolio_data.total_value = Float(10000)
    /\ \A t \in Threads :
          pc[t] # "idle" =>
              /\ FLe(Float(45000), frame[t].current_price)
              /\ FLe(frame[t].current_price, Float(54999))
    /\ \A i \in 1..Len(portfolio_data.positions) :
          /\ FLe(Float(45000), portfolio_data.positions[i].price)
          /\ FLe(portfolio_data.positions[i].price, Float(54999))
    /\ FLe(FAbs(portfolio_data.pnl), Float(100))
    /\ \A v \in (IF Returned THEN {reply.risk_assessment} ELSE {})
                  \cup (IF reply.op = "get_risk_analysis"
                        THEN {reply.body} ELSE {}) :
          /\ FLe(v.current_risk, Rat(1, 100))
          /\ FLe(Rat(1, 100), v.risk_limit) =>
                 v.within_limits /\ v.recommendation = "CONTINUE"

C9_Witness ==
    /\ reply.op = "get_risk_analysis"
    /\ reply.body.risk_limit = Rat(1, 100)
    /\ reply.body.current_risk = Rat(1, 100)
    /\ reply.body.within_limits
    /\ portfolio_data.pnl = Float(-100)

FlipSimulate(fr) == [fr EXCEPT !.execution.simulate = ~@]

SameButLabel(a, b) ==
    [a EXCEPT !.execution_result = ""] = [b EXCEPT !.execution_result = ""]

\* C10: the simulate flag decides the status label only.  In every reachable
\* state, the next statement of each call in progress has the same effect on
\* the portfolio and on the call's locals with the flag flipped, and the
\* returned dict differs in execution_result alone (SUCCESS when simulate,
\* EXECUTED when not); since no guard reads the flag, two runs that differ
\* only in their flags stay in step.
C10_SimulateIsLabelOnly ==
    \A t \in Threads :
        LET fr == frame[t]
            fl == FlipSimulate(frame[t])
        IN  /\ pc[t] = "engine" =>
                  /\ calculate_dca_position(fr.execution.config, fr.current_price)
                        = calculate_dca_position(fl.execution.config,
                                                 fl.current_price)
                  /\ calculate_hedge(fr.execution.config,
                                     fr.execution.config.dca_amount)
                        = calculate_hedge(fl.execution.config,
                                          fl.execution.config.dca_amount)
            /\ pc[t] = "append" =>
                  AppendPosition(portfolio_data, fr)
                      = AppendPosition(portfolio_data, fl)
            /\ pc[t] = "extend" =>
                  ExtendTrades(portfolio_data, fr) = ExtendTrades(portfolio_data, fl)
            /\ pc[t] = "pnl" =>
                  WritePnl(portfolio_data, fr) = WritePnl(portfolio_data, fl)
            /\ pc[t] = "risk" =>
                  /\ SameButLabel(ExecutionResult(fr), ExecutionResult(fl))
                  /\ ExecutionResult(fr).execution_result =
                         IF fr.execution.simulate THEN "SUCCESS" ELSE "EXECUTED"
                  /\ ExecutionResult(fl).execution_result =
                         IF fr.execution.simulate THEN "EXECUTED" ELSE "SUCCESS"

C10_Witness ==
    /\ Returned
    /\ reply.execution_result = "SUCCESS"
    /\ calls = 1
    /\ Len(portfolio_data.positions) = 1
    /\ Len(portfolio_data.trades) = 2
    /\ portfolio_data.pnl # InitialPortfolio.pnl

====
